---- MODULE Spec2Model ----
(***************************************************************************)
(* mixed_load.cpp: a CPU / memory load generator.  main() derives a thread *)
(* count, starts that many threads running x86_task() and joins them.      *)
(* x86_task() allocates a buffer and loops for ever over an integer phase, *)
(* a floating-point phase, a memory phase and a 10 ms sleep.               *)
(***************************************************************************)
EXTENDS Integers, Sequences, FiniteSets, TLC

(***************************************************************************)
(* Bounds of the model.  The source's 1,000,000 inner iterations and       *)
(* 1,048,576 buffer elements are scaled down to these.                     *)
(***************************************************************************)
MaxThreads == 2
InnerIters == 2
MaxArraySize == 2
MaxRounds == 1
UnitArraySize == 3
UnitRounds == 2
OrbitBack == 3

(***************************************************************************)
(* unsigned int: a 32-bit word.  TLC's integers are 32-bit signed, so a    *)
(* word is kept as its two 16-bit halves, [hi, lo] standing for            *)
(* hi * 2^16 + lo, and the arithmetic of lines 20-26 is done on the        *)
(* halves, modulo 2^32.                                                    *)
(***************************************************************************)
WordBits == 32
HalfBits == WordBits \div 2
Half == 2 ^ HalfBits

\* The word of an integer 0 <= n < 2^31 (the constants a, b, c, d).
ToWord(n) == [hi |-> n \div Half, lo |-> n % Half]

ZeroWord == [hi |-> 0, lo |-> 0]

\* Bit k of a word, bit 0 the least significant.
BitAt(w, k) ==
  IF k < HalfBits THEN (w.lo \div (2 ^ k)) % 2
  ELSE (w.hi \div (2 ^ (k - HalfBits))) % 2

\* The one element of a one-element set.  TLC hands an operator its arguments
\* unevaluated and evaluates them at each use; a variable bound over a set
\* holds a value, so the word operations below bind their operands first.
The(S) == CHOOSE e \in S : TRUE

\* x + y modulo 2^32 (unsigned wraparound).
WAdd(v, w) ==
  The({ [hi |-> (p.hi + q.hi + ((p.lo + q.lo) \div Half)) % Half,
         lo |-> (p.lo + q.lo) % Half] : p \in {v}, q \in {w} })

\* x - y modulo 2^32 (unsigned wraparound).
WSub(v, w) ==
  The({ [hi |-> (p.hi - q.hi - (IF p.lo < q.lo THEN 1 ELSE 0) + Half) % Half,
         lo |-> (p.lo - q.lo + Half) % Half] : p \in {v}, q \in {w} })

\* Bitwise operations on two 16-bit halves, bit by bit.
RECURSIVE Xor16(_, _)
Xor16(m, n) ==
  IF m = 0 /\ n = 0 THEN 0
  ELSE (((m % 2) + (n % 2)) % 2) + 2 * Xor16(m \div 2, n \div 2)

RECURSIVE Or16(_, _)
Or16(m, n) ==
  IF m = 0 /\ n = 0 THEN 0
  ELSE (IF m % 2 = 1 \/ n % 2 = 1 THEN 1 ELSE 0) + 2 * Or16(m \div 2, n \div 2)

WXor(v, w) ==
  The({ [hi |-> Xor16(p.hi, q.hi), lo |-> Xor16(p.lo, q.lo)] :
        p \in {v}, q \in {w} })

WOr(v, w) ==
  The({ [hi |-> Or16(p.hi, q.hi), lo |-> Or16(p.lo, q.lo)] :
        p \in {v}, q \in {w} })

\* x << n for n < 16: the bits shifted out at the top are lost.
Shl(w, n) ==
  The({ [hi |-> ((p.hi * (2 ^ n)) % Half) + ((p.lo * (2 ^ n)) \div Half),
         lo |-> (p.lo * (2 ^ n)) % Half] : p \in {w} })

\* x >> n for n >= 16, logical: what is left of the high half.
Shr(w, n) == The({ [hi |-> 0, lo |-> p.hi \div (2 ^ (n - HalfBits))] : p \in {w} })

(***************************************************************************)
(* x86_task's constants (lines 8, 11).                                     *)
(***************************************************************************)
a == 1
b == 2
c == 3
d == 4

\* Mutant: the right shift by 28 instead of 29.
RotateBad(r) == WOr(Shl(r, 3), Shr(r, 28))

\* Line 23: result = (result << 3) | (result >> 29).
Rotate(r) == WOr(Shl(r, 3), Shr(r, 29))

\* Lines 20-22: result += a * b; result -= c; result ^= d.
Arith(r) == WXor(WSub(WAdd(r, ToWord(a * b)), ToWord(c)), ToWord(d))

\* Mutant: the reset of lines 25-27 left out.
IntBodyNoReset(r) == Rotate(Arith(r))

\* Lines 20-27: one inner step of the integer loop on result.
IntBody(r) ==
  The({ IF v = ZeroWord THEN ToWord(a + b + c + d) ELSE v :
        v \in {Rotate(Arith(r))} })

(***************************************************************************)
(* float: fixed point, in units of 1/10000.  The literals of line 11 have  *)
(* two decimals; float rounding is not modelled.                           *)
(***************************************************************************)
x == 123
y == 456
z == 789
FThreshold == 100

\* Lines 32-38: one inner step of the floating-point loop.  f_result is
\* overwritten by x * y, so the step does not depend on its old value.
FloatBody(f) ==
  LET m == x * y
      s == m + z * 100
      q == (s * 100) \div y
  IN  IF q > FThreshold * 10000 THEN (x + y + z) * 100 ELSE q

(***************************************************************************)
(* std::stoi (line 60) on a string kept as a sequence of characters:       *)
(* leading white space is skipped, a sign is optional, the digits that     *)
(* follow are converted and whatever follows them is ignored.  No digit:   *)
(* std::invalid_argument.  Out of int's range: std::out_of_range.          *)
(***************************************************************************)
INT_MAX == 2147483647

Digits == <<"0", "1", "2", "3", "4", "5", "6", "7", "8", "9">>
IsDigit(ch) == \E n \in 1..10 : Digits[n] = ch
DigitVal(ch) == (CHOOSE n \in 1..10 : Digits[n] = ch) - 1
IsSpace(ch) == ch = " "

RECURSIVE SkipSpace(_, _)
SkipSpace(s, p) ==
  IF p <= Len(s) /\ IsSpace(s[p]) THEN SkipSpace(s, p + 1) ELSE p

\* The digits from position p on: [n: how many, val: their value, over: the
\* value left int's range].  (-2147483648, which std::stoi accepts, counts
\* as out of range here; no argument tried is that long.)
RECURSIVE ScanDigits(_, _, _, _)
ScanDigits(s, p, n, acc) ==
  IF p <= Len(s) /\ IsDigit(s[p])
  THEN IF acc > (INT_MAX - DigitVal(s[p])) \div 10
       THEN [n |-> n + 1, val |-> acc, over |-> TRUE]
       ELSE ScanDigits(s, p + 1, n + 1, acc * 10 + DigitVal(s[p]))
  ELSE [n |-> n, val |-> acc, over |-> FALSE]

\* std::stoi(argv[1]): ok is FALSE when it throws.
Stoi(s) ==
  LET p == SkipSpace(s, 1)
      neg == p <= Len(s) /\ s[p] = "-"
      q == IF p <= Len(s) /\ s[p] \in {"-", "+"} THEN p + 1 ELSE p
      r == ScanDigits(s, q, 0, 0)
  IN  IF r.n = 0 \/ r.over
      THEN [ok |-> FALSE, val |-> 0]
      ELSE [ok |-> TRUE, val |-> IF neg THEN 0 - r.val ELSE r.val]


(***************************************************************************)
(* The command lines tried: argv[1] as a sequence of characters.           *)
(***************************************************************************)
ArgSamples ==
  { <<"1">>, <<"2">>, <<"3">>, <<"0">>, <<"-", "1">>, <<"+", "1">>,
    <<" ", "2">>, <<"1", "a">>, <<"a">>, <<"a", "1">>, <<"-">>, <<>> }

\* The thread ids a run may use; one more than the largest count asked for.
UnitIds == 1..(MaxThreads + 1)

\* What new int[ARRAY_SIZE] leaves in an element (line 15): no value yet.
Indeterminate == -1

VARIABLES
  argc,        \* main's argc: 1 (no argument) or 2
  argv1,       \* argv[1]
  hw,          \* what std::thread::hardware_concurrency() returns
  num_threads, \* main's num_threads
  mpc,         \* where main is
  mi,          \* main's loop counter i (line 64)
  threads,     \* threads.size(): the units launched
  joined,      \* how many of threads main has joined (line 70)
  proc,        \* the process: "running", "exit0", "aborted"
  bad_alloc,   \* the units whose operator new threw std::bad_alloc
  ARRAY_SIZE,  \* x86_task's ARRAY_SIZE (line 14)
  upc,         \* where each unit is
  result,      \* each unit's result
  f_result,    \* each unit's f_result
  ui,          \* each unit's loop counter i
  array,       \* each unit's buffer
  round        \* the rounds each unit has begun

mainVars == <<argc, argv1, hw, num_threads, mpc, mi, threads, joined>>
unitVars == <<upc, result, f_result, ui, array, round>>
vars == <<argc, argv1, hw, num_threads, mpc, mi, threads, joined, proc,
          bad_alloc, ARRAY_SIZE, upc, result, f_result, ui, array, round>>

\* A unit's own state: its locals, its buffer and its position.
UnitState(t) == <<upc[t], result[t], f_result[t], ui[t], array[t], round[t]>>

LoopPcs == {"loop", "int", "float", "write", "read", "sleep"}
LivePcs == {"entry"} \cup LoopPcs

\* No unit exists yet.
NoUnits ==
  /\ upc = [t \in UnitIds |-> "none"]
  /\ result = [t \in UnitIds |-> ZeroWord]
  /\ f_result = [t \in UnitIds |-> 0]
  /\ ui = [t \in UnitIds |-> 0]
  /\ array = [t \in UnitIds |-> <<>>]
  /\ round = [t \in UnitIds |-> 0]

\* The process as main() is entered, argv[1] (if given) among args and the
\* host's processor count among hosts.  With an argument the host's count is
\* overwritten before it is used, and one value of it is tried.
InitWith(args, hosts) ==
  /\ \/ /\ argc = 1
        /\ argv1 = <<>>
        /\ hw \in hosts
     \/ /\ argc = 2
        /\ argv1 \in args
        /\ hw = 1
  /\ num_threads = 0
  /\ mpc = "start"
  /\ mi = 0
  /\ threads = 0
  /\ joined = 0
  /\ proc = "running"
  /\ bad_alloc = {}
  /\ ARRAY_SIZE = MaxArraySize
  /\ NoUnits

Init ==
  InitWith({s \in ArgSamples : Stoi(s).ok => Stoi(s).val <= MaxThreads},
           0..MaxThreads)

(***************************************************************************)
(* main (lines 56-75).                                                     *)
(***************************************************************************)
\* Line 57: int num_threads = std::thread::hardware_concurrency().
ReadHw ==
  /\ proc = "running" /\ mpc = "start"
  /\ num_threads' = hw
  /\ mpc' = "args"
  /\ UNCHANGED <<argc, argv1, hw, mi, threads, joined, proc, bad_alloc,
                 ARRAY_SIZE, unitVars>>

\* Lines 59-61: an argument replaces the count; std::stoi throwing leaves
\* main uncaught, which is std::terminate: the process aborts.
ParseArg ==
  /\ proc = "running" /\ mpc = "args"
  /\ IF argc > 1
     THEN IF Stoi(argv1).ok
          THEN /\ num_threads' = Stoi(argv1).val
               /\ mpc' = "spawn"
               /\ proc' = proc
          ELSE /\ proc' = "aborted"
               /\ UNCHANGED <<num_threads, mpc>>
     ELSE /\ mpc' = "spawn"
          /\ UNCHANGED <<num_threads, proc>>
  /\ UNCHANGED <<argc, argv1, hw, mi, threads, joined, bad_alloc,
                 ARRAY_SIZE, unitVars>>

\* Mutant: the loop runs once too often.
SpawnMoreOffByOne(i, n) == i <= n

\* Line 64: the loop test i < num_threads.
SpawnMore(i, n) == i < n

\* Lines 64-67: threads.emplace_back(x86_task) starts one more unit.
Spawn ==
  /\ proc = "running" /\ mpc = "spawn"
  /\ SpawnMore(mi, num_threads)
  /\ threads' = threads + 1
  /\ upc' = [upc EXCEPT ![threads + 1] = "entry"]
  /\ mi' = mi + 1
  /\ UNCHANGED <<argc, argv1, hw, num_threads, mpc, joined, proc, bad_alloc,
                 ARRAY_SIZE, result, f_result, ui, array, round>>

\* Line 64, the loop left: main goes on to the joins.
SpawnDone ==
  /\ proc = "running" /\ mpc = "spawn"
  /\ ~SpawnMore(mi, num_threads)
  /\ mpc' = "join"
  /\ UNCHANGED <<argc, argv1, hw, num_threads, mi, threads, joined, proc,
                 bad_alloc, ARRAY_SIZE, unitVars>>

\* Lines 70-72: thread.join() returns once that thread has ended.
Join ==
  /\ proc = "running" /\ mpc = "join"
  /\ joined < threads
  /\ upc[joined + 1] \in {"returned", "killed"}
  /\ joined' = joined + 1
  /\ UNCHANGED <<argc, argv1, hw, num_threads, mpc, mi, threads, proc,
                 bad_alloc, ARRAY_SIZE, unitVars>>

\* Line 74: return 0, every thread joined.
Return ==
  /\ proc = "running" /\ mpc = "join"
  /\ joined = threads
  /\ mpc' = "done"
  /\ proc' = "exit0"
  /\ UNCHANGED <<argc, argv1, hw, num_threads, mi, threads, joined,
                 bad_alloc, ARRAY_SIZE, unitVars>>

MainStep == ReadHw \/ ParseArg \/ Spawn \/ SpawnDone \/ Join \/ Return

(***************************************************************************)
(* x86_task (lines 7-54), for unit t.                                      *)
(***************************************************************************)
\* What one unit step leaves alone: main, the process and the environment.
UnitFrame == UNCHANGED <<mainVars, proc, bad_alloc, ARRAY_SIZE>>

\* Lines 8-15, operator new succeeding: the locals are initialised and the
\* buffer exists, its elements not yet written.
AllocOk(t) ==
  /\ proc = "running" /\ upc[t] = "entry"
  /\ result' = [result EXCEPT ![t] = ZeroWord]
  /\ f_result' = [f_result EXCEPT ![t] = 0]
  /\ array' = [array EXCEPT ![t] = [k \in 1..ARRAY_SIZE |-> Indeterminate]]
  /\ upc' = [upc EXCEPT ![t] = "loop"]
  /\ UNCHANGED <<ui, round>>
  /\ UnitFrame

\* Mutant: the failed allocation yields no buffer and the unit goes on.
AllocFailGoesOn(t) ==
  /\ proc = "running" /\ upc[t] = "entry"
  /\ bad_alloc' = bad_alloc \cup {t}
  /\ upc' = [upc EXCEPT ![t] = "loop"]
  /\ UNCHANGED <<mainVars, proc, ARRAY_SIZE, result, f_result, ui, array, round>>

\* Line 15, operator new throwing std::bad_alloc: nothing in x86_task
\* catches it, so the thread ends in std::terminate and the process aborts.
AllocFail(t) ==
  /\ proc = "running" /\ upc[t] = "entry"
  /\ bad_alloc' = bad_alloc \cup {t}
  /\ proc' = "aborted"
  /\ UNCHANGED <<mainVars, ARRAY_SIZE, unitVars>>

\* Mutant: the loop ends after its first round.
LoopCondOnce(r) == r < 1

\* Line 17: while (true), whatever the rounds r done so far.
LoopCond(r) == TRUE

\* Line 17: the head of the round loop; were the test false, lines 53-54
\* would release the buffer and return.
LoopHead(t) ==
  /\ proc = "running" /\ upc[t] = "loop"
  /\ IF LoopCond(round[t])
     THEN /\ upc' = [upc EXCEPT ![t] = "int"]
          /\ ui' = [ui EXCEPT ![t] = 0]
          /\ round' = [round EXCEPT ![t] = @ + 1]
          /\ array' = array
     ELSE /\ upc' = [upc EXCEPT ![t] = "returned"]
          /\ array' = [array EXCEPT ![t] = <<>>]
          /\ UNCHANGED <<ui, round>>
  /\ UNCHANGED <<result, f_result>>
  /\ UnitFrame

\* Lines 19-28: one inner step of the integer loop.
IntStep(t) ==
  /\ proc = "running" /\ upc[t] = "int"
  /\ ui[t] < InnerIters
  /\ result' = [result EXCEPT ![t] = IntBody(@)]
  /\ ui' = [ui EXCEPT ![t] = @ + 1]
  /\ UNCHANGED <<upc, f_result, array, round>>
  /\ UnitFrame

\* Line 19, the loop left.
IntExit(t) ==
  /\ proc = "running" /\ upc[t] = "int"
  /\ ~(ui[t] < InnerIters)
  /\ upc' = [upc EXCEPT ![t] = "float"]
  /\ ui' = [ui EXCEPT ![t] = 0]
  /\ UNCHANGED <<result, f_result, array, round>>
  /\ UnitFrame

\* Lines 31-39: one inner step of the floating-point loop.
FloatStep(t) ==
  /\ proc = "running" /\ upc[t] = "float"
  /\ ui[t] < InnerIters
  /\ f_result' = [f_result EXCEPT ![t] = FloatBody(@)]
  /\ ui' = [ui EXCEPT ![t] = @ + 1]
  /\ UNCHANGED <<upc, result, array, round>>
  /\ UnitFrame

\* Line 31, the loop left.
FloatExit(t) ==
  /\ proc = "running" /\ upc[t] = "float"
  /\ ~(ui[t] < InnerIters)
  /\ upc' = [upc EXCEPT ![t] = "write"]
  /\ ui' = [ui EXCEPT ![t] = 0]
  /\ UNCHANGED <<result, f_result, array, round>>
  /\ UnitFrame

\* Line 43: the value written to element i.
WriteElem(i) == i * 2

\* Mutant: every unit writes through to the first unit's buffer.
WriteTargetShared(t) == 1

\* Line 43: the buffer unit t writes is its own.
WriteTarget(t) == t

\* Lines 42-44: array[i] = i * 2 (element i is array[t][i + 1] here).
WriteStep(t) ==
  /\ proc = "running" /\ upc[t] = "write"
  /\ ui[t] < ARRAY_SIZE
  /\ array' = [array EXCEPT ![WriteTarget(t)][ui[t] + 1] = WriteElem(ui[t])]
  /\ ui' = [ui EXCEPT ![t] = @ + 1]
  /\ UNCHANGED <<upc, result, f_result, round>>
  /\ UnitFrame

\* Line 42, the loop left.
WriteExit(t) ==
  /\ proc = "running" /\ upc[t] = "write"
  /\ ~(ui[t] < ARRAY_SIZE)
  /\ upc' = [upc EXCEPT ![t] = "read"]
  /\ ui' = [ui EXCEPT ![t] = 0]
  /\ UNCHANGED <<result, f_result, array, round>>
  /\ UnitFrame

\* Mutant: the neighbour index is not reduced modulo the size (clamped to the
\* element itself at the end of the buffer).
ReadElemNoWrap(arr, i, size) ==
  arr[i + 1] + arr[(IF i + 1 < size THEN i + 1 ELSE i) + 1]

\* Line 46: array[i] + array[(i + 1) % ARRAY_SIZE], read from the buffer as
\* it is now.
ReadElem(arr, i, size) == arr[i + 1] + arr[((i + 1) % size) + 1]

\* Lines 45-47: array[i] += array[(i + 1) % ARRAY_SIZE], in place.
ReadStep(t) ==
  /\ proc = "running" /\ upc[t] = "read"
  /\ ui[t] < ARRAY_SIZE
  /\ array' = [array EXCEPT ![t][ui[t] + 1] = ReadElem(array[t], ui[t], ARRAY_SIZE)]
  /\ ui' = [ui EXCEPT ![t] = @ + 1]
  /\ UNCHANGED <<upc, result, f_result, round>>
  /\ UnitFrame

\* Line 45, the loop left.
ReadExit(t) ==
  /\ proc = "running" /\ upc[t] = "read"
  /\ ~(ui[t] < ARRAY_SIZE)
  /\ upc' = [upc EXCEPT ![t] = "sleep"]
  /\ UNCHANGED <<result, f_result, ui, array, round>>
  /\ UnitFrame

\* Line 50: sleep_for(10 ms), then back to the head of the loop.
Sleep(t) ==
  /\ proc = "running" /\ upc[t] = "sleep"
  /\ upc' = [upc EXCEPT ![t] = "loop"]
  /\ UNCHANGED <<result, f_result, ui, array, round>>
  /\ UnitFrame

\* One pass of the loop body, lines 17-51.
RoundStep(t) ==
  \/ LoopHead(t)
  \/ IntStep(t)
  \/ IntExit(t)
  \/ FloatStep(t)
  \/ FloatExit(t)
  \/ WriteStep(t)
  \/ WriteExit(t)
  \/ ReadStep(t)
  \/ ReadExit(t)
  \/ Sleep(t)

UnitStep(t) == AllocOk(t) \/ AllocFail(t) \/ RoundStep(t)

\* The host ends one thread from outside (the program has no such code):
\* its stack, and with it its locals, is gone and its buffer is never used
\* again.
Kill(t) ==
  /\ proc = "running" /\ upc[t] \in LivePcs
  /\ upc' = [upc EXCEPT ![t] = "killed"]
  /\ result' = [result EXCEPT ![t] = ZeroWord]
  /\ f_result' = [f_result EXCEPT ![t] = 0]
  /\ ui' = [ui EXCEPT ![t] = 0]
  /\ array' = [array EXCEPT ![t] = <<>>]
  /\ round' = [round EXCEPT ![t] = 0]
  /\ UNCHANGED <<mainVars, proc, bad_alloc, ARRAY_SIZE>>

\* The bound of the exploration: unit t begins no round beyond the n-th (the
\* bound does not keep it from leaving the loop).
UnderCap(t, n) == (upc[t] = "loop" /\ LoopCond(round[t])) => round[t] < n

\* A step of unit t's loop within the first n rounds.
RoundStepWithin(t, n) ==
  \/ UnderCap(t, n) /\ LoopHead(t)
  \/ IntStep(t)
  \/ IntExit(t)
  \/ FloatStep(t)
  \/ FloatExit(t)
  \/ WriteStep(t)
  \/ WriteExit(t)
  \/ ReadStep(t)
  \/ ReadExit(t)
  \/ Sleep(t)

\* A step of unit t within the rounds explored.
BoundedUnitStep(t) ==
  AllocOk(t) \/ AllocFail(t) \/ RoundStepWithin(t, MaxRounds)

Next ==
  \/ MainStep
  \/ \E t \in UnitIds : BoundedUnitStep(t)
  \/ \E t \in UnitIds : Kill(t)

Spec == Init /\ [][Next]_vars

\* The runs checked for progress: up to two units.
FairArgs == { <<"1">>, <<"2">>, <<"0">>, <<"+", "1">>, <<"1", "a">>, <<"a">> }
FairHosts == {0, 1, 2}

\* The host schedules every thread that can run: main and each unit.
FairSpec ==
  /\ InitWith(FairArgs, FairHosts)
  /\ [][Next]_vars
  /\ WF_vars(MainStep)
  /\ \A t \in UnitIds : WF_vars(BoundedUnitStep(t))

(***************************************************************************)
(* One unit alone, from the head of its round loop, for the claims about   *)
(* what a round computes.                                                  *)
(***************************************************************************)
\* The rotation of w to the left by s places, bit by bit: bit k of the
\* result is bit (k - s) mod 32 of w.
RECURSIVE RotHalf(_, _, _, _)
RotHalf(w, s, base, k) ==
  IF k = HalfBits THEN 0
  ELSE BitAt(w, (base + k + WordBits - s) % WordBits) * (2 ^ k)
       + RotHalf(w, s, base, k + 1)

RotL(w, s) == [hi |-> RotHalf(w, s, HalfBits, 0), lo |-> RotHalf(w, s, 0, 0)]

\* The value result had one inner step before it is r, the reset aside:
\* lines 20-23 undone (a bijection on the 32-bit words).
InvBody(r) ==
  WSub(WAdd(WXor(RotL(r, WordBits - 3), ToWord(d)), ToWord(c)), ToWord(a * b))

RECURSIVE InvBodyN(_, _)
InvBodyN(r, n) == IF n = 0 THEN r ELSE InvBodyN(InvBody(r), n - 1)

\* Values result takes late in a run.  Lines 20-23 permute the words, so the
\* values from 0 on close a cycle through 0: the run from 0 passes through
\* every predecessor of 0 on it (the last one, 5, after 1,007,849,365 steps).
OrbitSamples == {InvBodyN(ZeroWord, n) : n \in 1..OrbitBack}

\* Lines 42-44 done on a buffer of the given size.
WritePass(size) == [k \in 1..size |-> WriteElem(k - 1)]

\* Lines 45-47 done from element i on.
RECURSIVE ReadPass(_, _, _)
ReadPass(arr, i, size) ==
  IF i < size
  THEN ReadPass([arr EXCEPT ![i + 1] = ReadElem(arr, i, size)], i + 1, size)
  ELSE arr

\* Main waits in the joins for its one unit.
OneUnitMain ==
  /\ argc = 1 /\ argv1 = <<>> /\ hw = 1
  /\ num_threads = 1 /\ mpc = "join" /\ mi = 1 /\ threads = 1 /\ joined = 0
  /\ proc = "running" /\ bad_alloc = {}

\* Unit 1 at the head of its loop: either as x86_task reaches it first, or
\* later in the run, after a round, with a later value of result.
InitUnit ==
  /\ OneUnitMain
  /\ ARRAY_SIZE \in 1..UnitArraySize
  /\ upc = [t \in UnitIds |-> IF t = 1 THEN "loop" ELSE "none"]
  /\ ui = [t \in UnitIds |-> 0]
  /\ round = [t \in UnitIds |-> 0]
  /\ \/ /\ result = [t \in UnitIds |-> ZeroWord]
        /\ f_result = [t \in UnitIds |-> 0]
        /\ array = [t \in UnitIds |->
                      IF t = 1 THEN [k \in 1..ARRAY_SIZE |-> Indeterminate]
                      ELSE <<>>]
     \/ /\ \E r \in OrbitSamples :
             result = [t \in UnitIds |-> IF t = 1 THEN r ELSE ZeroWord]
        /\ f_result = [t \in UnitIds |-> IF t = 1 THEN FloatBody(0) ELSE 0]
        /\ array = [t \in UnitIds |->
                      IF t = 1
                      THEN ReadPass(WritePass(ARRAY_SIZE), 0, ARRAY_SIZE)
                      ELSE <<>>]

NextUnit == RoundStepWithin(1, UnitRounds)

SpecUnit == InitUnit /\ [][NextUnit]_vars

(***************************************************************************)
(* The rotation of line 23 alone, applied over and over to chosen words.   *)
(***************************************************************************)
\* 0, 1, 0xFFFFFFFF, 0xE0000000, 0x1FFFFFFF, 0x80000001, 0xDEADBEEF,
\* 0x10000000.
RotSamples ==
  { [hi |-> 0, lo |-> 0], [hi |-> 0, lo |-> 1],
    [hi |-> Half - 1, lo |-> Half - 1], [hi |-> 57344, lo |-> 0],
    [hi |-> 8191, lo |-> Half - 1], [hi |-> 32768, lo |-> 1],
    [hi |-> 57005, lo |-> 48879], [hi |-> 4096, lo |-> 0] }

\* Unit 1 inside its integer loop, result about to be rotated.
InitRot ==
  /\ OneUnitMain
  /\ ARRAY_SIZE = 1
  /\ upc = [t \in UnitIds |-> IF t = 1 THEN "int" ELSE "none"]
  /\ ui = [t \in UnitIds |-> 0]
  /\ round = [t \in UnitIds |-> IF t = 1 THEN 1 ELSE 0]
  /\ \E r \in RotSamples :
       result = [t \in UnitIds |-> IF t = 1 THEN r ELSE ZeroWord]
  /\ f_result = [t \in UnitIds |-> 0]
  /\ array = [t \in UnitIds |-> IF t = 1 THEN <<Indeterminate>> ELSE <<>>]

\* Line 23 on unit 1's result.
RotateStep ==
  /\ result' = [result EXCEPT ![1] = Rotate(@)]
  /\ UNCHANGED <<mainVars, proc, bad_alloc, ARRAY_SIZE, upc, f_result, ui,
                 array, round>>

SpecRot == InitRot /\ [][RotateStep]_vars

(***************************************************************************)
(* The claims.                                                             *)
(***************************************************************************)
\* The read-accumulate pass of unit t is complete and the buffer not yet
\* written again.
ReadPassDone(t) ==
  \/ upc[t] = "sleep"
  \/ upc[t] = "read" /\ ui[t] = ARRAY_SIZE

\* C1, as stated: after the write pass and one in-place read-accumulate pass
\* over a buffer of M >= 1 elements, buffer[i] = i*2 + ((i+1) % M)*2 for
\* every i in [0, M), the last index included.
C1_AsStated ==
  \A t \in UnitIds :
    (ReadPassDone(t) /\ round[t] >= 1) =>
      \A i \in 0..(ARRAY_SIZE - 1) :
        array[t][i + 1] = i * 2 + ((i + 1) % ARRAY_SIZE) * 2

\* C1, amended: after the two passes buffer[i] = i*2 + (i+1)*2 for every i in
\* [0, M-1); the last element has had added to it element 0 as the pass had
\* already updated it: buffer[M-1] = (M-1)*2 + buffer[0], which is
\* (M-1)*2 + 2 for M >= 2 and 0 for M = 1.
C1_MemoryPhase ==
  \A t \in UnitIds :
    (ReadPassDone(t) /\ round[t] >= 1) =>
      /\ \A i \in 0..(ARRAY_SIZE - 2) : array[t][i + 1] = i * 2 + (i + 1) * 2
      /\ ARRAY_SIZE = 1 => array[t][1] = 0
      /\ ARRAY_SIZE >= 2 =>
           /\ array[t][ARRAY_SIZE] = (ARRAY_SIZE - 1) * 2 + array[t][1]
           /\ array[t][ARRAY_SIZE] = (ARRAY_SIZE - 1) * 2 + 2

\* C1's case: a buffer of three elements after both passes of a round.
C1_Witness ==
  /\ upc[1] = "sleep" /\ round[1] >= 1
  /\ ARRAY_SIZE = 3
  /\ array[1] = <<2, 6, 6>>

\* argv[1] is given and std::stoi converts it.
ArgParses == argc = 2 /\ Stoi(argv1).ok

\* The count argv[1] stands for.
ArgCount == Stoi(argv1).val

\* C2: when the thread-count argument parses to an integer <= 0, the run
\* that launches no unit and exits with status 0 is not reachable.
C2_NoSilentZero ==
  (ArgParses /\ ArgCount <= 0) => ~(proc = "exit0" /\ threads = 0)

\* The units launched so far.
Launched == {t \in UnitIds : upc[t] # "none"}

ValidInteger(s) ==
  LET p == SkipSpace(s, 1)
      q == IF p <= Len(s) /\ s[p] \in {"-", "+"} THEN p + 1 ELSE p
      r == ScanDigits(s, q, 0, 0)
  IN  r.n > 0 /\ ~r.over /\ q + r.n = Len(s) + 1

\* C4: an argument that is present and is not a valid integer ends the
\* process with a non-zero status, no unit launched in any state of the run.
C4_ParseError ==
  (argc = 2 /\ ~ValidInteger(argv1)) =>
    /\ threads = 0
    /\ proc # "exit0"
    /\ mpc \in {"start", "args"}

\* C5: with no argument the units launched, once main is in the joins, are
\* as many as the host's logical processors, or 1 if the host reports 0.
C5_DefaultCount ==
  (argc = 1 /\ mpc \in {"join", "done"}) =>
    threads = (IF hw = 0 THEN 1 ELSE hw)

\* C6: a unit whose allocation succeeded and which is not stopped from
\* outside never returns: in each state of its loop another step of the
\* round is enabled, the state after the loop is never reached, and main's
\* join on it does not complete.
C6_NeverReturns ==
  \A t \in UnitIds :
    /\ upc[t] # "returned"
    /\ (proc = "running" /\ upc[t] \in LoopPcs) => ENABLED RoundStep(t)
    /\ (upc[t] \in LivePcs) => joined < t

\* C6's case: a unit has done a whole round and is back at the head of the
\* loop, main waiting in its join.
C6_Witness ==
  \E t \in UnitIds :
    /\ upc[t] = "loop" /\ round[t] >= 1
    /\ mpc = "join" /\ joined < t /\ proc = "running"

\* Unit t is at the head of the loop with all the rounds explored behind it.
AtCap(t) == upc[t] = "loop" /\ round[t] = MaxRounds

\* Every unit has been launched and has its buffer: from here on no
\* allocation can fail.
AllRunning == mpc = "join" /\ \A v \in UnitIds : upc[v] # "entry"

\* C7: a step of one unit changes no other unit's state; a unit's state is
\* changed only by its own steps, its launch and its being stopped; with a
\* sibling stopped from outside, every remaining unit still has a step
\* enabled and, scheduled fairly, goes on through its rounds for as long as
\* it is not stopped itself.
C7_Independence ==
  /\ [][\A t \in UnitIds :
          UnitStep(t) =>
            \A u \in UnitIds \ {t} : UnitState(u)' = UnitState(u)]_vars
  /\ [][\A u \in UnitIds :
          UnitState(u)' # UnitState(u) =>
            UnitStep(u) \/ Kill(u) \/ (Spawn /\ u = threads + 1)]_vars
  /\ [][\A t \in UnitIds :
          Kill(t) =>
            \A u \in UnitIds \ {t} :
              upc[u] \in LivePcs => (upc'[u] = upc[u] /\ proc' = "running")]_vars
  /\ [](\A u \in UnitIds :
          (proc = "running" /\ upc[u] \in LivePcs
             /\ \E t \in UnitIds : upc[t] = "killed") => ENABLED UnitStep(u))
  /\ \A u \in UnitIds :
       (AllRunning /\ upc[u] \in LoopPcs /\ \E t \in UnitIds : upc[t] = "killed")
         ~> (AtCap(u) \/ upc[u] = "killed")

\* C7's case: one unit stopped from outside, its sibling through a whole
\* round with its own buffer filled.
C7_Witness ==
  /\ upc[1] = "killed"
  /\ AtCap(2)
  /\ proc = "running"
  /\ array[2][1] = 2

\* C8: once a unit's allocation has failed the process is aborted (not
\* exit status 0), the failing unit has not entered its loop, and no unit
\* and not main takes another step; a unit in its loop has its buffer.
C8_AllocFailureFatal ==
  /\ \A t \in bad_alloc :
       /\ proc = "aborted"
       /\ upc[t] = "entry"
       /\ \A u \in UnitIds : ~ENABLED UnitStep(u)
       /\ ~ENABLED MainStep
  /\ \A t \in UnitIds : upc[t] \in LoopPcs => Len(array[t]) = ARRAY_SIZE

\* C8's case: the second unit's allocation failed while the first was
\* running its round.
C8_Witness ==
  /\ 2 \in bad_alloc
  /\ upc[1] \in {"int", "float", "write", "read", "sleep"}

\* Unit t has not yet completed an inner step of its first integer loop.
BeforeFirstStep(t) ==
  \/ upc[t] \in {"none", "entry", "killed"}
  \/ upc[t] = "loop" /\ round[t] = 0
  \/ upc[t] = "int" /\ round[t] = 1 /\ ui[t] = 0

\* C9: an inner step that ends with result = 0 resets it to a + b + c + d
\* (10), so result is non-zero after every completed step, and only the very
\* first step of a unit begins from 0.
C9_IntegerReset ==
  /\ [](\A t \in UnitIds : result[t] = ZeroWord => BeforeFirstStep(t))
  /\ [][\A t \in UnitIds :
          IntStep(t) =>
            /\ result'[t] # ZeroWord
            /\ Rotate(Arith(result[t])) = ZeroWord =>
                 /\ result'[t] = ToWord(10)
                 /\ result'[t] = ToWord(a + b + c + d)]_vars

\* C9's case: the step from 5 has ended in 0 and result is the 10 of the
\* reset, in the second round.
C9_Witness ==
  /\ upc[1] = "int" /\ ui[1] >= 1 /\ round[1] = 2
  /\ result[1] = [hi |-> 0, lo |-> 10]

\* C10: the rotation of line 23 is the circular rotation of the 32-bit word
\* by 3 places to the left: it agrees with it bit by bit, its result is a
\* 32-bit word, and no two words are rotated to the same word (rotating
\* back by 3 places gives the word again).
C10_Rotate ==
  LET V == result[1]
      R == Rotate(V)
  IN  /\ R = RotL(V, 3)
      /\ R.hi \in 0..(Half - 1) /\ R.lo \in 0..(Half - 1)
      /\ \A k \in 0..(WordBits - 1) : BitAt(R, (k + 3) % WordBits) = BitAt(V, k)
      /\ RotL(R, WordBits - 3) = V
      /\ \A W \in RotSamples : Rotate(W) = R => W = V

\* C10's case: 0xE0000000 rotated, its three top bits now the three lowest.
C10_Witness ==
  /\ upc[1] = "int"
  /\ result[1] = [hi |-> 0, lo |-> 7]

====
